---- MODULE Spec2Model ----
(***************************************************************************)
(* State-machine model of the idea board API (src/main.py): the document   *)
(* store with its three collections, the startup seed, and the request     *)
(* handlers list_ideas, get_idea, create_idea, add_comment and add_vote.   *)
(*                                                                         *)
(* Conventions                                                             *)
(*   - an Optional[str] is a sequence of length 0 (None) or 1 (the value); *)
(*   - a voter or host is a string, tested only for emptiness and          *)
(*     equality; a link is a sequence of characters, because the code      *)
(*     inspects its prefix;                                                *)
(*   - an id string is a record [oid, form]: form "lower" is the 24-digit  *)
(*     hex text str(ObjectId) produces, "upper" the same digits in upper   *)
(*     case (ObjectId() accepts both), "bad" a text ObjectId() rejects;    *)
(*   - time is counted in days;                                            *)
(*   - an unhandled exception in a handler is the response status 500.     *)
(***************************************************************************)
EXTENDS Integers, Sequences, FiniteSets, TLC

VARIABLES
    db,             \* the store: collections idea, comment, vote; the vote index; the id generator
    now,            \* the clock, datetime.now(timezone.utc), in days
    pc,             \* per process: where it is in startup_event, or "up" (serving requests)
    inserted_ids,   \* per process: ensure_seed_data's local list inserted_ids
    pending,        \* per process: an add_vote request that passed its checks and has not inserted yet
    resp            \* the response to the request completed last

vars == <<db, now, pc, inserted_ids, pending, resp>>

-----------------------------------------------------------------------------
(* Bounds of the model *)

\* Votes, comments and ideas beyond the seed that the store may hold when only
\* writes are checked (SpecVote, SpecIdea).
MaxNewVotes == 1
MaxNewComments == 1
MaxNewIdeas == 2
\* Records per collection beyond the seed when GET /api/ideas is checked (SpecList).
MaxReadWrites == 1
\* Records in all beyond the seed when GET /api/ideas/{id} is checked (SpecGet).
MaxGetWrites == 2
\* The latest time, in days, the clock reaches in SpecList and in SpecGet.
MaxNow == 37
MaxGetNow == 14

-----------------------------------------------------------------------------
(* Values *)

None == <<>>
Some(x) == <<x>>

\* Python truthiness of an Optional[str]: None and "" are falsy.
Truthy(opt) == opt # None /\ opt[1] # ""

\* Python truthiness of an Optional link (a sequence of characters).
TruthyLink(opt) == opt # None /\ opt[1] # <<>>

\* str(ObjectId): the lower-case hex text of an object id.
Str(oid) == [oid |-> oid, form |-> "lower"]

\* The same id written in upper case; ObjectId() parses it to the same object id.
Upper(oid) == [oid |-> oid, form |-> "upper"]

\* A text that is not 24 hex digits.
BadId == [oid |-> 0, form |-> "bad"]

\* ObjectId(s) raises bson.errors.InvalidId unless s is 24 hex digits.
InvalidId(s) == s.form = "bad"

\* ObjectId(s) for a well-formed s: case is not significant.
ObjectId(s) == s.oid

\* The characters of "http://" and "https://".
HttpPrefix == <<"h", "t", "t", "p", ":", "/", "/">>
HttpsPrefix == <<"h", "t", "t", "p", "s", ":", "/", "/">>

\* str.startswith
StartsWith(s, p) == Len(s) >= Len(p) /\ SubSeq(s, 1, Len(p)) = p

-----------------------------------------------------------------------------
(* The store *)

\* The store before anything was written.
EmptyDb == [idea |-> <<>>, comment |-> <<>>, vote |-> <<>>, vote_index |-> FALSE, next_oid |-> 1]

\* The unique index on (idea_id, voter) rejects a vote whose pair is already stored.
DuplicateKey(d, collection, data) ==
    /\ collection = "vote"
    /\ d.vote_index
    /\ \E i \in 1..Len(d.vote) :
          d.vote[i].idea_id = data.idea_id /\ d.vote[i].voter = data.voter

\* create_document(collection, data): stamp the creation time, insert under a
\* fresh object id, return the id as text. A rejected insert raises.
create_document(d, collection, data, t) ==
    IF DuplicateKey(d, collection, data)
    THEN [db |-> d, id |-> BadId, raised |-> TRUE]
    ELSE LET doc == [f \in (DOMAIN data) \cup {"_id", "created_at"} |->
                        IF f = "_id" THEN d.next_oid
                        ELSE IF f = "created_at" THEN t
                        ELSE data[f]]
         IN [db |-> [d EXCEPT ![collection] = Append(@, doc), !.next_oid = @ + 1],
             id |-> Str(d.next_oid),
             raised |-> FALSE]

\* db["idea"].find_one({"_id": oid}): whether an idea with this object id is stored.
FindIdea(d, oid) == \E i \in 1..Len(d.idea) : d.idea[i]._id = oid

\* FromStart with "$gt" in place of "$gte": a record exactly on the edge of
\* the window is left out.
FromStartStrict(created_at, start) == created_at > start

\* Whether a creation time passes the filter {"$gte": start}.
FromStart(created_at, start) == created_at >= start

\* A filter {"idea_id": idea_id} with an optional {"created_at": {"$gte": start}}.
Matches(doc, idea_id, time_filter) ==
    /\ doc.idea_id = idea_id
    /\ time_filter # None => FromStart(doc.created_at, time_filter[1])

\* db[collection].count_documents(filter)
count_documents(coll, idea_id, time_filter) ==
    Len(SelectSeq(coll, LAMBDA doc : Matches(doc, idea_id, time_filter)))

-----------------------------------------------------------------------------
(* Seed data and startup *)

\* The three sample ideas. Of an idea's fields the model keeps the title and the
\* link; description, author and tags are stored as given and never read.
SeedIdeas ==
    << [title |-> "AI-Powered Code Reviewer",
        link |-> Some(HttpsPrefix \o <<"example.com/code-reviewer">>)],
       [title |-> "Fitness Buddy Chat",
        link |-> Some(HttpsPrefix \o <<"example.com/fitness-buddy">>)],
       [title |-> "Travel Plan Optimizer",
        link |-> Some(HttpsPrefix \o <<"example.com/travel-optimizer">>)] >>

\* The sample comments, on the ideas whose ids are ids[1] and ids[2].
SeedComments(ids) ==
    << [idea_id |-> ids[1], author |-> Some("Maya"), content |-> "Love this!"],
       [idea_id |-> ids[1], author |-> Some("Ravi"), content |-> "Would use at work."],
       [idea_id |-> ids[2], author |-> Some("Chris"), content |-> "Nice concept."] >>

\* range(n) of the three vote loops, by position of the idea in inserted_ids.
SeedVoteCounts == <<5, 3, 8>>

\* f"user_{i}"
UserName(i) == "user_" \o ToString(i)

\* The votes one loop inserts: voters user_0 .. user_{n-1} on one idea.
SeedVotes(idea_id, n) == [i \in 1..n |-> [idea_id |-> idea_id, voter |-> UserName(i - 1)]]

\* A run of create_document calls in order; the first that raises ends the run.
RECURSIVE InsertMany(_, _, _, _)
InsertMany(d, collection, docs, t) ==
    IF docs = <<>>
    THEN [db |-> d, ids |-> <<>>, raised |-> FALSE]
    ELSE LET first == create_document(d, collection, Head(docs), t)
         IN IF first.raised
            THEN [db |-> d, ids |-> <<>>, raised |-> TRUE]
            ELSE LET rest == InsertMany(first.db, collection, Tail(docs), t)
                 IN [db |-> rest.db, ids |-> <<first.id>> \o rest.ids, raised |-> rest.raised]

\* SeedGuard that never holds: every startup seeds.
SeedGuardOff(d) == FALSE

\* ensure_seed_data's guard: db["idea"].count_documents({}) > 0
SeedGuard(d) == Len(d.idea) > 0

\* ensure_seed_data after the ideas: the comments, then the three vote loops.
SeedRest(d, ids, t) ==
    LET comments == InsertMany(d, "comment", SeedComments(ids), t)
        v1 == InsertMany(comments.db, "vote", SeedVotes(ids[1], SeedVoteCounts[1]), t)
        v2 == InsertMany(v1.db, "vote", SeedVotes(ids[2], SeedVoteCounts[2]), t)
        v3 == InsertMany(v2.db, "vote", SeedVotes(ids[3], SeedVoteCounts[3]), t)
    IN IF v1.raised THEN [db |-> v1.db, raised |-> TRUE]
       ELSE IF v2.raised THEN [db |-> v2.db, raised |-> TRUE]
       ELSE [db |-> v3.db, raised |-> v3.raised]

\* ensure_seed_data, run without interruption.
ensure_seed_data(d, t) ==
    IF SeedGuard(d)
    THEN [db |-> d, raised |-> FALSE]
    ELSE LET ideas == InsertMany(d, "idea", SeedIdeas, t)
         IN SeedRest(ideas.db, ideas.ids, t)

\* Whether two stored votes carry the same (idea_id, voter) pair.
HasDuplicateVotes(votes) ==
    \E i, j \in 1..Len(votes) :
        i # j /\ votes[i].idea_id = votes[j].idea_id /\ votes[i].voter = votes[j].voter

\* create_index that builds nothing.
create_index_skipped(d) == d

\* db["vote"].create_index([("idea_id", 1), ("voter", 1)], unique=True) inside
\* try/except: the store refuses to build the index over duplicates, and the
\* refusal is swallowed.
create_index(d) ==
    IF HasDuplicateVotes(d.vote) THEN d ELSE [d EXCEPT !.vote_index = TRUE]

\* startup_event, run without interruption.
startup_event(d, t) ==
    LET seeded == ensure_seed_data(d, t)
    IN IF seeded.raised
       THEN [db |-> seeded.db, raised |-> TRUE]
       ELSE [db |-> create_index(seeded.db), raised |-> FALSE]

-----------------------------------------------------------------------------
(* Serialization and query helpers *)

\* datetime.isoformat(): the creation time rendered as text.
IsoFormat(t) == [iso |-> t]

\* serialize_doc: "_id" becomes the text field "id", created_at becomes text.
serialize_doc(doc) ==
    [f \in ((DOMAIN doc) \ {"_id"}) \cup {"id"} |->
        IF f = "id" THEN Str(doc._id)
        ELSE IF f = "created_at" THEN IsoFormat(doc.created_at)
        ELSE doc[f]]

\* timedelta(days=7) and timedelta(days=30)
WeekDays == 7
MonthDays == 30

\* get_time_filter(period): None stands for the empty filter {}.
get_time_filter(period, t) ==
    IF period = Some("week") THEN Some(t - WeekDays)
    ELSE IF period = Some("month") THEN Some(t - MonthDays)
    ELSE None

\* SortKey that ignores the sort parameter.
SortKeyVotes(doc, sort) == doc.votes

\* The sort key of list_ideas: x.get("comments", 0) or x.get("votes", 0).
SortKey(doc, sort) == IF sort = "comments" THEN doc.comments ELSE doc.votes

\* Where list.sort(key=..., reverse=True) places x among docs already in
\* order: after every element whose key is not smaller (the sort is stable).
RECURSIVE InsertSorted(_, _, _)
InsertSorted(sorted, x, sort) ==
    IF sorted = <<>> THEN <<x>>
    ELSE IF SortKey(Head(sorted), sort) >= SortKey(x, sort)
         THEN <<Head(sorted)>> \o InsertSorted(Tail(sorted), x, sort)
         ELSE <<x>> \o sorted

\* enriched.sort(key=lambda x: x.get(<sort>, 0), reverse=True)
RECURSIVE SortDescending(_, _)
SortDescending(docs, sort) ==
    IF docs = <<>> THEN <<>>
    ELSE InsertSorted(SortDescending(SubSeq(docs, 1, Len(docs) - 1), sort),
                      docs[Len(docs)], sort)

\* The direction get_idea asks the store to sort comments in: -1, descending.
CommentSortDirection == -1

\* Whether a sequence of records is ordered by created_at in the direction dir.
OrderedBy(s, dir) ==
    \A i, j \in 1..Len(s) :
        i < j => IF dir = -1 THEN s[i].created_at >= s[j].created_at
                             ELSE s[i].created_at <= s[j].created_at

\* db[collection].find({"idea_id": idea_id}).sort("created_at", dir): every
\* order of the matching records the store may return (ties in any order).
FindSorted(coll, idea_id, dir) ==
    LET found == SelectSeq(coll, LAMBDA doc : Matches(doc, idea_id, None))
        n == Len(found)
        perms == {p \in [1..n -> 1..n] : \A i, j \in 1..n : i # j => p[i] # p[j]}
    IN {s \in {[i \in 1..n |-> found[p[i]]] : p \in perms} : OrderedBy(s, dir)}

\* [serialize_doc(c) for c in comments]
SerializeAll(docs) == [i \in 1..Len(docs) |-> serialize_doc(docs[i])]

\* The document of a collection with the given object id (it is stored).
DocById(coll, oid) == CHOOSE doc \in {coll[i] : i \in 1..Len(coll)} : doc._id = oid

-----------------------------------------------------------------------------
(* Request handlers, as functions of the store *)

\* A response: the handler, the HTTP status, the request, the body (a
\* sequence: empty, one document, or the listing).
Response(op, status, req, body) == [op |-> op, status |-> status, req |-> req, body |-> body]

\* No request answered yet.
NoResponse == Response("none", 0, [none |-> TRUE], <<>>)

\* get_documents(collection): every record, in insertion order.
get_documents(d, collection) == d[collection]

\* list_ideas: the time filter, computed only for the two known periods.
ListTimeFilter(period, t) ==
    IF period \in {Some("week"), Some("month")} THEN get_time_filter(period, t) ELSE None

\* list_ideas: one idea with its vote and comment counts.
Enrich(d, idea, time_filter) ==
    LET idea_id == Str(idea._id)
        votes == count_documents(d.vote, idea_id, time_filter)
        comments == count_documents(d.comment, idea_id, time_filter)
        doc == serialize_doc(idea)
    IN [f \in (DOMAIN doc) \cup {"votes", "comments"} |->
           IF f = "votes" THEN votes
           ELSE IF f = "comments" THEN comments
           ELSE doc[f]]

\* list_ideas(period, sort): the returned list.
list_ideas(d, period, sort, t) ==
    LET ideas == get_documents(d, "idea")
        time_filter == ListTimeFilter(period, t)
        enriched == [i \in 1..Len(ideas) |-> Enrich(d, ideas[i], time_filter)]
    IN SortDescending(enriched, sort)

\* get_idea(idea_id): the responses the handler may give (one per order the
\* store may return the comments in).
get_idea(d, idea_id) ==
    LET req == [idea_id |-> idea_id]
    IN IF InvalidId(idea_id) THEN {Response("get_idea", 500, req, <<>>)}
       ELSE IF ~FindIdea(d, ObjectId(idea_id)) THEN {Response("get_idea", 404, req, <<>>)}
       ELSE LET doc == serialize_doc(DocById(d.idea, ObjectId(idea_id)))
                votes == count_documents(d.vote, idea_id, None)
            IN { Response("get_idea", 200, req,
                    << [f \in (DOMAIN doc) \cup {"comments_list", "votes"} |->
                          IF f = "comments_list" THEN SerializeAll(comments)
                          ELSE IF f = "votes" THEN votes
                          ELSE doc[f]] >>)
                 : comments \in FindSorted(d.comment, idea_id, CommentSortDirection) }

\* create_idea: the link as stored. A link that is None or empty is left as
\* it is; one that starts with neither "http://" nor "https://" gets
\* "https://" in front.
NormalizeLink(link) ==
    IF TruthyLink(link)
    THEN IF ~(StartsWith(link[1], HttpPrefix) \/ StartsWith(link[1], HttpsPrefix))
         THEN Some(HttpsPrefix \o link[1])
         ELSE link
    ELSE link

\* create_idea(payload): the store and the response after the request.
create_idea(d, payload, t) ==
    LET data == [payload EXCEPT !.link = NormalizeLink(payload.link)]
        made == create_document(d, "idea", data, t)
        doc == DocById(made.db.idea, ObjectId(made.id))
    IN [db |-> made.db, resp |-> Response("create_idea", 200, payload, <<serialize_doc(doc)>>)]

\* add_comment(payload): the store and the response after the request.
add_comment(d, payload, t) ==
    IF InvalidId(payload.idea_id)
    THEN [db |-> d, resp |-> Response("add_comment", 500, payload, <<>>)]
    ELSE IF ~FindIdea(d, ObjectId(payload.idea_id))
    THEN [db |-> d, resp |-> Response("add_comment", 404, payload, <<>>)]
    ELSE LET made == create_document(d, "comment", payload, t)
             doc == DocById(made.db.comment, ObjectId(made.id))
         IN [db |-> made.db, resp |-> Response("add_comment", 200, payload, <<serialize_doc(doc)>>)]

\* VoterIdentity that prefers the caller's address to the supplied voter.
VoterIdentityClientFirst(voter, client) == IF Truthy(client) THEN client ELSE voter

\* add_vote: payload.voter or (request.client.host if request.client else None)
VoterIdentity(voter, client) == IF Truthy(voter) THEN voter ELSE client

\* FindVote that looks the voter up on any idea.
FindVoteAnyIdea(d, idea_id, voter) ==
    \E i \in 1..Len(d.vote) : d.vote[i].voter = voter

\* add_vote: db["vote"].find_one({"idea_id": idea_id, "voter": voter})
FindVote(d, idea_id, voter) ==
    \E i \in 1..Len(d.vote) : d.vote[i].idea_id = idea_id /\ d.vote[i].voter = voter

\* add_vote up to the insert: the status it raises, or 0 when every check passed.
AddVoteChecks(d, payload, client) ==
    LET voter_identity == VoterIdentity(payload.voter, client)
    IN IF InvalidId(payload.idea_id) THEN 500
       ELSE IF ~FindIdea(d, ObjectId(payload.idea_id)) THEN 404
       ELSE IF ~Truthy(voter_identity) THEN 400
       ELSE IF FindVote(d, payload.idea_id, voter_identity[1]) THEN 409
       ELSE 0

\* add_vote from the insert on: create_document raises when the index rejects
\* the pair, and nothing catches it.
AddVoteInsert(d, req, t) ==
    LET voter_identity == VoterIdentity(req.voter, req.client)
        made == create_document(d, "vote", [idea_id |-> req.idea_id, voter |-> voter_identity[1]], t)
    IN IF made.raised
       THEN [db |-> d, resp |-> Response("add_vote", 500, req, <<>>)]
       ELSE [db |-> made.db,
             resp |-> Response("add_vote", 200, req,
                               <<serialize_doc(DocById(made.db.vote, ObjectId(made.id)))>>)]

\* add_vote(payload, request), run without interruption.
add_vote(d, payload, client, t) ==
    LET req == [idea_id |-> payload.idea_id, voter |-> payload.voter, client |-> client]
        status == AddVoteChecks(d, payload, client)
    IN IF status # 0
       THEN [db |-> d, resp |-> Response("add_vote", status, req, <<>>)]
       ELSE AddVoteInsert(d, req, t)

-----------------------------------------------------------------------------
(* Inputs *)

\* The server processes that share the store.
Procs == {1, 2}

\* The number of seed records per collection.
SeedIdeaCount == Len(SeedIdeas)
SeedCommentCount == Len(SeedComments(<<BadId, BadId>>))
SeedVoteCount == SeedVoteCounts[1] + SeedVoteCounts[2] + SeedVoteCounts[3]

\* Advances of the clock, in days.
TickDays == {7, 23}

\* Links a create_idea request may carry: none, empty, without a scheme, with
\* "http://" or "https://", with another scheme, an upper-case scheme, a near miss.
Links ==
    { None,
      Some(<<>>),
      Some(<<"a", ".", "c", "o">>),
      Some(HttpPrefix \o <<"a">>),
      Some(HttpsPrefix \o <<"a">>),
      Some(HttpsPrefix),
      Some(<<"f", "t", "p", ":", "/", "/", "a">>),
      Some(<<"H", "T", "T", "P", ":", "/", "/", "a">>),
      Some(<<"h", "t", "t", "p", ":", "/", "a">>) }

\* Voters an add_vote request may carry, and the client addresses it may come from.
Voters == {None, Some(""), Some("alice"), Some("user_0")}
Clients == {None, Some("10.0.0.1")}

\* Query parameters of list_ideas.
Periods == {None, Some("week"), Some("month"), Some("year")}
Sorts == {"votes", "comments", "newest"}

\* The first idea's id in both spellings.
FirstIdeaIds(d) == IF Len(d.idea) >= 1 THEN {Str(d.idea[1]._id), Upper(d.idea[1]._id)} ELSE {}

\* The id of the k-th idea, as the API returns it.
IdeaId(d, k) == IF Len(d.idea) >= k THEN {Str(d.idea[k]._id)} ELSE {}

\* Id texts a request may carry: the first idea's id in both spellings, the
\* id the store hands out next (it names no idea yet), a malformed text.
IdInputs(d) == FirstIdeaIds(d) \cup {Str(d.next_oid), BadId}

-----------------------------------------------------------------------------
(* Initial state: an empty store, no process started *)

Init ==
    /\ db = EmptyDb
    /\ now = 0
    /\ pc = [p \in Procs |-> "down"]
    /\ inserted_ids = [p \in Procs |-> <<>>]
    /\ pending = [p \in Procs |-> None]
    /\ resp = NoResponse

-----------------------------------------------------------------------------
(* Requests handled without interruption, by process 1. The parameter cap  *)
(* bounds the records of the collection beyond one seed.                   *)

\* The process starts: startup_event.
Startup ==
    /\ pc[1] = "down"
    /\ LET started == startup_event(db, now)
       IN /\ db' = started.db
          /\ pc' = [pc EXCEPT ![1] = IF started.raised THEN "failed" ELSE "up"]
    /\ UNCHANGED <<now, inserted_ids, pending, resp>>

\* The process stops, to be started again.
Shutdown ==
    /\ pc[1] = "up"
    /\ pc' = [pc EXCEPT ![1] = "down"]
    /\ UNCHANGED <<db, now, inserted_ids, pending, resp>>

\* POST /api/ideas
CreateIdea(link, cap) ==
    /\ pc[1] = "up"
    /\ LET done == create_idea(db, [title |-> "t", link |-> link], now)
       IN /\ Len(done.db.idea) <= SeedIdeaCount + cap
          /\ db' = done.db
          /\ resp' = done.resp
    /\ UNCHANGED <<now, pc, inserted_ids, pending>>

\* POST /api/comments
AddComment(idea_id, cap) ==
    /\ pc[1] = "up"
    /\ LET done == add_comment(db, [idea_id |-> idea_id, author |-> None, content |-> "c"], now)
       IN /\ Len(done.db.comment) <= SeedCommentCount + cap
          /\ db' = done.db
          /\ resp' = done.resp
    /\ UNCHANGED <<now, pc, inserted_ids, pending>>

\* POST /api/votes
AddVote(idea_id, voter, client, cap) ==
    /\ pc[1] = "up"
    /\ LET done == add_vote(db, [idea_id |-> idea_id, voter |-> voter], client, now)
       IN /\ Len(done.db.vote) <= SeedVoteCount + cap
          /\ db' = done.db
          /\ resp' = done.resp
    /\ UNCHANGED <<now, pc, inserted_ids, pending>>

\* GET /api/ideas/{idea_id}
GetIdea(idea_id) ==
    /\ pc[1] = "up"
    /\ resp' \in get_idea(db, idea_id)
    /\ UNCHANGED <<db, now, pc, inserted_ids, pending>>

\* GET /api/ideas
ListIdeas(period, sort) ==
    /\ pc[1] = "up"
    /\ resp' = Response("list_ideas", 200, [period |-> period, sort |-> sort, at |-> now],
                        list_ideas(db, period, sort, now))
    /\ UNCHANGED <<db, now, pc, inserted_ids, pending>>

\* Time passes.
Tick(days, cap) ==
    /\ now + days <= cap
    /\ now' = now + days
    /\ UNCHANGED <<db, pc, inserted_ids, pending, resp>>

-----------------------------------------------------------------------------
(* Specifications of the server handling one request at a time *)

\* The records the store holds beyond one seed.
NewRecords(d) ==
    Len(d.idea) + Len(d.comment) + Len(d.vote)
        - (SeedIdeaCount + SeedCommentCount + SeedVoteCount)

\* GET /api/ideas/{id} after writes: ideas, comments and votes are added
\* while time passes.
NextGet ==
    \/ Startup
    \/ CreateIdea(None, MaxGetWrites) /\ NewRecords(db') <= MaxGetWrites
    \/ \E i \in FirstIdeaIds(db) : AddComment(i, MaxGetWrites) /\ NewRecords(db') <= MaxGetWrites
    \/ \E i \in FirstIdeaIds(db) :
          AddVote(i, Some("alice"), None, MaxGetWrites) /\ NewRecords(db') <= MaxGetWrites
    \/ \E days \in TickDays : Tick(days, MaxGetNow)
    \/ \E i \in IdInputs(db) : GetIdea(i)

SpecGet == Init /\ [][NextGet]_vars

\* GET /api/ideas after writes: comments and votes are added while time passes.
NextList ==
    \/ Startup
    \/ \E i \in IdeaId(db, 3) : AddComment(i, MaxReadWrites)
    \/ \E i \in IdeaId(db, 2) : AddVote(i, Some("alice"), None, MaxReadWrites)
    \/ \E days \in TickDays : Tick(days, MaxNow)
    \/ \E period \in Periods, sort \in Sorts : ListIdeas(period, sort)

SpecList == Init /\ [][NextList]_vars

\* POST /api/votes and POST /api/comments with every kind of id, voter and client.
NextVote ==
    \/ Startup
    \/ \E i \in IdInputs(db) : AddComment(i, MaxNewComments)
    \/ \E i \in IdInputs(db), v \in Voters, c \in Clients : AddVote(i, v, c, MaxNewVotes)

SpecVote == Init /\ [][NextVote]_vars

\* POST /api/ideas with every kind of link, between starts of the process.
NextIdea ==
    \/ Startup
    \/ Shutdown
    \/ \E link \in Links : CreateIdea(link, MaxNewIdeas)

SpecIdea == Init /\ [][NextIdea]_vars

-----------------------------------------------------------------------------
(* Processes that share the store: startup_event in four steps (the count, *)
(* the ideas, the comments and votes, the index) and add_vote in two, the  *)
(* checks and the insert. The reads of add_vote before its insert are one  *)
(* step: ideas are never removed, so only the vote lookup can be overtaken.*)

\* ensure_seed_data counts the ideas.
StartupCount(p) ==
    /\ pc[p] = "down"
    /\ pc' = [pc EXCEPT ![p] = IF SeedGuard(db) THEN "create_index" ELSE "seed_ideas"]
    /\ UNCHANGED <<db, now, inserted_ids, pending, resp>>

\* ensure_seed_data inserts the three ideas.
StartupSeedIdeas(p) ==
    /\ pc[p] = "seed_ideas"
    /\ LET made == InsertMany(db, "idea", SeedIdeas, now)
       IN /\ db' = made.db
          /\ inserted_ids' = [inserted_ids EXCEPT ![p] = made.ids]
    /\ pc' = [pc EXCEPT ![p] = "seed_rest"]
    /\ UNCHANGED <<now, pending, resp>>

\* ensure_seed_data inserts the comments and the votes; an insert the index
\* rejects raises out of startup_event, and the process does not come up.
StartupSeedRest(p) ==
    /\ pc[p] = "seed_rest"
    /\ LET made == SeedRest(db, inserted_ids[p], now)
       IN /\ db' = made.db
          /\ pc' = [pc EXCEPT ![p] = IF made.raised THEN "failed" ELSE "create_index"]
    /\ UNCHANGED <<now, inserted_ids, pending, resp>>

\* startup_event creates the index and the process serves requests.
StartupCreateIndex(p) ==
    /\ pc[p] = "create_index"
    /\ db' = create_index(db)
    /\ pc' = [pc EXCEPT ![p] = "up"]
    /\ inserted_ids' = [inserted_ids EXCEPT ![p] = <<>>]
    /\ UNCHANGED <<now, pending, resp>>

\* A process that is up with no request in hand, or whose startup failed, is
\* stopped, to be started again.
Restart(p) ==
    /\ pc[p] \in {"up", "failed"}
    /\ pending[p] = None
    /\ pc' = [pc EXCEPT ![p] = "down"]
    /\ inserted_ids' = [inserted_ids EXCEPT ![p] = <<>>]
    /\ UNCHANGED <<db, now, pending, resp>>

\* add_vote up to the insert: a check that fails answers the request, and
\* otherwise the request goes on to its insert.
VoteCheck(p, idea_id, voter, client) ==
    /\ pc[p] = "up"
    /\ pending[p] = None
    /\ LET req == [idea_id |-> idea_id, voter |-> voter, client |-> client]
           status == AddVoteChecks(db, [idea_id |-> idea_id, voter |-> voter], client)
       IN IF status # 0
          THEN /\ resp' = Response("add_vote", status, req, <<>>)
               /\ UNCHANGED pending
          ELSE /\ pending' = [pending EXCEPT ![p] = Some(req)]
               /\ UNCHANGED resp
    /\ UNCHANGED <<db, now, pc, inserted_ids>>

\* add_vote from the insert on.
VoteInsert(p) ==
    /\ pending[p] # None
    /\ LET done == AddVoteInsert(db, pending[p][1], now)
       IN /\ db' = done.db
          /\ resp' = done.resp
    /\ pending' = [pending EXCEPT ![p] = None]
    /\ UNCHANGED <<now, pc, inserted_ids>>

\* Id texts of add_vote requests while startups run: the first idea's id in
\* upper case (no seed vote carries it) and the id of the idea stored last
\* (a seed vote of a startup still running may carry it).
RaceIdInputs(d) ==
    IF Len(d.idea) >= 1 THEN {Upper(d.idea[1]._id), Str(d.idea[Len(d.idea)]._id)} ELSE {}

\* Voters of add_vote requests while startups run: the first seed voter.
RaceVoters == {Some(UserName(0))}

Next ==
    \/ \E p \in Procs : StartupCount(p)
    \/ \E p \in Procs : StartupSeedIdeas(p)
    \/ \E p \in Procs : StartupSeedRest(p)
    \/ \E p \in Procs : StartupCreateIndex(p)
    \/ \E p \in Procs : Restart(p)
    \/ \E p \in Procs, i \in RaceIdInputs(db), v \in RaceVoters : VoteCheck(p, i, v, None)
    \/ \E p \in Procs : VoteInsert(p)

Spec == Init /\ [][Next]_vars

-----------------------------------------------------------------------------
(* Properties *)

\* Whether an id text names an idea present in the store.
Identifies(d, id) == ~InvalidId(id) /\ \E i \in 1..Len(d.idea) : d.idea[i]._id = id.oid

\* The positions of the votes that carry the pair (idea_id, voter).
VotesOf(d, idea_id, voter) ==
    {k \in 1..Len(d.vote) : d.vote[k].idea_id = idea_id /\ d.vote[k].voter = voter}

\* A step that answers an add_vote request.
AnswersVote == resp' # resp /\ resp'.op = "add_vote"

\* A step that answers an add_comment request.
AnswersComment == resp' # resp /\ resp'.op = "add_comment"

\* The vote collection gains exactly one record, for the pair (idea_id, voter).
OneNewVote(idea_id, voter) ==
    /\ Len(db'.vote) = Len(db.vote) + 1
    /\ SubSeq(db'.vote, 1, Len(db.vote)) = db.vote
    /\ db'.vote[Len(db'.vote)].idea_id = idea_id
    /\ db'.vote[Len(db'.vote)].voter = voter
    /\ db'.idea = db.idea /\ db'.comment = db.comment

\* C1: in every reachable state, whatever the interleaving of startups and
\* add_vote requests, the vote collection holds at most one record per
\* (idea_id, voter) pair.
C1_OneVotePerPair ==
    \A i, j \in 1..Len(db.vote) :
        (db.vote[i].idea_id = db.vote[j].idea_id /\ db.vote[i].voter = db.vote[j].voter) => i = j

\* C1 witness: a vote was added by a request while another process is still
\* inside its startup.
C1_Witness ==
    /\ resp.op = "add_vote" /\ resp.status = 200
    /\ \E p \in Procs : pc[p] \in {"seed_ideas", "seed_rest", "create_index"}

\* C2: when two concurrent add_vote requests for the same idea and voter both
\* passed the existence check and the first one's insert was just answered 200,
\* the second one's insert is rejected by the store and answered with 409.
C2_RaceAnswers409 ==
    [][\A p \in Procs :
          (/\ pending[p] # None
           /\ pending'[p] = None
           /\ resp.op = "add_vote" /\ resp.status = 200
           /\ resp.req.idea_id = pending[p][1].idea_id
           /\ resp.body[1].voter = pending[p][1].voter[1]
           /\ VotesOf(db, pending[p][1].idea_id, pending[p][1].voter[1]) # {})
          => (resp'.status = 409 /\ db' = db)]_vars

C4_UnknownIdea404 ==
    [][((AnswersVote \/ AnswersComment) /\ ~Identifies(db, resp'.req.idea_id))
          => (resp'.status = 404 /\ db' = db)]_vars

\* C4, for well-formed ids only: a request whose id is well formed and names no
\* idea is answered 404, and any request naming no idea changes nothing.
C4_WellFormedUnknownIdea404 ==
    [][((AnswersVote \/ AnswersComment) /\ ~Identifies(db, resp'.req.idea_id))
          => /\ db' = db
             /\ resp'.status = (IF InvalidId(resp'.req.idea_id) THEN 500 ELSE 404)]_vars

\* C9: add_vote on an existing idea records, and checks for a duplicate, the
\* supplied voter when a non-empty one is supplied, otherwise the caller's
\* address; with neither it answers 400 and stores nothing.
C9_VoterIdentity ==
    [][(AnswersVote /\ Identifies(db, resp'.req.idea_id)) =>
          LET r == resp'.req
              supplied == r.voter # None /\ r.voter[1] # ""
              address == r.client # None /\ r.client[1] # ""
          IN IF ~supplied /\ ~address
             THEN resp'.status = 400 /\ db' = db
             ELSE LET who == IF supplied THEN r.voter[1] ELSE r.client[1]
                  IN IF VotesOf(db, r.idea_id, who) # {}
                     THEN resp'.status = 409 /\ db' = db
                     ELSE /\ resp'.status = 200
                          /\ OneNewVote(r.idea_id, who)
                          /\ resp'.body[1].voter = who]_vars

\* C9 witness: a vote recorded under the caller's address, no voter supplied.
C9_Witness ==
    /\ resp.op = "add_vote" /\ resp.status = 200
    /\ ~Truthy(resp.req.voter)
    /\ resp.body[1].voter = "10.0.0.1"

\* C9 witness of the rejection: neither a voter nor an address.
C9_Witness400 == resp.op = "add_vote" /\ resp.status = 400

\* The number of records of a collection that carry the id text idea_id.
CountFor(coll, idea_id) == Cardinality({k \in 1..Len(coll) : coll[k].idea_id = idea_id})

\* The voters of the votes on one idea.
VotersOf(d, idea_id) == {d.vote[k].voter : k \in {j \in 1..Len(d.vote) : d.vote[j].idea_id = idea_id}}

\* The store right after the seed: 3 ideas, 2 + 1 + 0 comments, 5 + 3 + 8
\* votes, and on each idea as many voters as votes.
SeededStore(d) ==
    /\ Len(d.idea) = 3 /\ Len(d.comment) = 3 /\ Len(d.vote) = 16
    /\ \A a, b \in 1..3 : a # b => d.idea[a]._id # d.idea[b]._id
    /\ CountFor(d.comment, Str(d.idea[1]._id)) = 2
    /\ CountFor(d.comment, Str(d.idea[2]._id)) = 1
    /\ CountFor(d.comment, Str(d.idea[3]._id)) = 0
    /\ CountFor(d.vote, Str(d.idea[1]._id)) = 5
    /\ CountFor(d.vote, Str(d.idea[2]._id)) = 3
    /\ CountFor(d.vote, Str(d.idea[3]._id)) = 8
    /\ \A a \in 1..3 : Cardinality(VotersOf(d, Str(d.idea[a]._id))) = CountFor(d.vote, Str(d.idea[a]._id))

\* C5: a startup against an empty idea collection leaves exactly 3 ideas, 3
\* comments (2, 1, 0) and 16 votes (5, 3, 8, distinct voters per idea); a
\* startup against a non-empty idea collection inserts nothing.
C5_SeedOnce ==
    [][(pc[1] = "down" /\ pc'[1] # "down") =>
          IF Len(db.idea) = 0
          THEN SeededStore(db')
          ELSE db'.idea = db.idea /\ db'.comment = db.comment /\ db'.vote = db.vote]_vars

\* C5 witness: the process is up over the store its startup seeded.
C5_Witness == pc[1] = "up" /\ SeededStore(db) /\ db.vote_index

\* Whether a text has a scheme: some characters, then "://".
HasScheme(s) == \E k \in 2..(Len(s) - 2) : SubSeq(s, k, k + 2) = <<":", "/", "/">>

\* The idea a create_idea response reports, as it is stored.
StoredIdea(d, r) == CHOOSE doc \in {d.idea[i] : i \in 1..Len(d.idea)} : Str(doc._id) = r.body[1].id

\* C10: for a create_idea request that supplies a link, a link without a
\* scheme is stored with "https://" in front, and a link that has a scheme is
\* stored as supplied.
C10_LinkScheme ==
    (resp.op = "create_idea" /\ TruthyLink(resp.req.link)) =>
        LET link == resp.req.link[1]
            stored == StoredIdea(db, resp).link
        IN /\ stored # None
           /\ IF HasScheme(link)
              THEN stored[1] = link
              ELSE StartsWith(stored[1], HttpsPrefix)

\* C10, as the code has it: a non-empty link that starts with "http://" or
\* "https://" is stored as supplied, any other non-empty link is stored with
\* "https://" in front, and an empty or absent link is stored as supplied.
C10_LinkHttpPrefix ==
    resp.op = "create_idea" =>
        LET link == resp.req.link
            stored == StoredIdea(db, resp).link
            http == <<"h", "t", "t", "p", ":", "/", "/">>
            https == <<"h", "t", "t", "p", "s", ":", "/", "/">>
        IN /\ resp.status = 200
           /\ resp.body[1].link = stored
           /\ IF link = None \/ link = <<<<>>>> THEN stored = link
              ELSE IF StartsWith(link[1], http) \/ StartsWith(link[1], https)
                   THEN stored = link
                   ELSE stored = <<https \o link[1]>>

\* C10 witness: a link with a scheme other than http and https was stored.
C10_Witness ==
    /\ resp.op = "create_idea"
    /\ resp.req.link = Some(<<"f", "t", "p", ":", "/", "/", "a">>)

\* The positions of the records of a collection that carry the id text idea_id.
RecordsFor(coll, idea_id) == {k \in 1..Len(coll) : coll[k].idea_id = idea_id}

\* Whether the comments a response lists are exactly the stored comments on
\* idea_id, each once, newest first.
ListsCommentsOf(d, idea_id, listed) ==
    /\ Len(listed) = Cardinality(RecordsFor(d.comment, idea_id))
    /\ \A k \in RecordsFor(d.comment, idea_id) :
          Cardinality({n \in 1..Len(listed) : listed[n].id = Str(d.comment[k]._id)}) = 1
    /\ \A n \in 1..Len(listed) :
          \E k \in RecordsFor(d.comment, idea_id) :
              /\ listed[n].id = Str(d.comment[k]._id)
              /\ listed[n].created_at = IsoFormat(d.comment[k].created_at)
              /\ listed[n].content = d.comment[k].content
    /\ \A m, n \in 1..Len(listed) :
          m < n => listed[m].created_at.iso >= listed[n].created_at.iso

\* What get_idea answers for an id that names an idea: 200, the count of all
\* votes carrying the id, the comments carrying it, newest first.
AnswersIdea(d, r) ==
    /\ r.status = 200
    /\ r.body[1].id = Str(r.req.idea_id.oid)
    /\ r.body[1].votes = Cardinality(RecordsFor(d.vote, r.req.idea_id))
    /\ ListsCommentsOf(d, r.req.idea_id, r.body[1].comments_list)

\* C6: get_idea returns, for an existing idea, votes equal to the number of
\* vote records with that idea_id, whatever their age, and comments_list
\* holding exactly the comment records with that idea_id, newest first; for
\* an id that resolves to no idea it returns 404.
C6_IdeaDetail ==
    resp.op = "get_idea" =>
        IF Identifies(db, resp.req.idea_id)
        THEN AnswersIdea(db, resp)
        ELSE resp.status = 404

\* C6, for well-formed ids only: as C6, but a malformed id is answered 500.
C6_WellFormedIdeaDetail ==
    resp.op = "get_idea" =>
        IF Identifies(db, resp.req.idea_id) THEN AnswersIdea(db, resp)
        ELSE resp.status = (IF InvalidId(resp.req.idea_id) THEN 500 ELSE 404)

\* C6 witness: an idea returned with comments of different ages and with a
\* vote older than a week.
C6_Witness ==
    /\ resp.op = "get_idea" /\ resp.status = 200
    /\ Len(resp.body[1].comments_list) >= 3
    /\ resp.body[1].comments_list[1].created_at # resp.body[1].comments_list[3].created_at
    /\ now >= 14

\* The count list_ideas reports under sort.
Reported(doc, sort) == IF sort = "comments" THEN doc.comments ELSE doc.votes

\* C7: list_ideas returns every stored idea exactly once, in an order
\* non-increasing in the comments count when sort=comments and in the votes
\* count for the default and any other sort value.
C7_ListSorted ==
    resp.op = "list_ideas" =>
        /\ Len(resp.body) = Len(db.idea)
        /\ \A i \in 1..Len(db.idea) :
              Cardinality({n \in 1..Len(resp.body) : resp.body[n].id = Str(db.idea[i]._id)}) = 1
        /\ \A m, n \in 1..Len(resp.body) :
              m < n => Reported(resp.body[m], resp.req.sort) >= Reported(resp.body[n], resp.req.sort)

\* C7 witness: a listing by comments whose order differs from the order by votes.
C7_Witness ==
    /\ resp.op = "list_ideas" /\ resp.req.sort = "comments"
    /\ \E m, n \in 1..Len(resp.body) :
          m < n /\ resp.body[m].votes < resp.body[n].votes /\ resp.body[m].comments > resp.body[n].comments

\* The days list_ideas looks back for a period; 0 stands for no restriction.
Window(period) == IF period = <<"week">> THEN 7 ELSE IF period = <<"month">> THEN 30 ELSE 0

\* The records of a collection on idea_id that a listing at time at counts.
Counted(coll, idea_id, period, at) ==
    {k \in 1..Len(coll) :
        /\ coll[k].idea_id = idea_id
        /\ (Window(period) = 0 \/ coll[k].created_at >= at - Window(period))}

\* C8: the votes and comments counts list_ideas reports for an idea count
\* exactly its records created at or after now - 7 days for period=week, at or
\* after now - 30 days for period=month, and all of them for no or any other
\* period, the same window for both counts.
C8_ListWindow ==
    resp.op = "list_ideas" =>
        \A n \in 1..Len(resp.body) :
            LET doc == resp.body[n]
            IN /\ doc.votes = Cardinality(Counted(db.vote, doc.id, resp.req.period, resp.req.at))
               /\ doc.comments = Cardinality(Counted(db.comment, doc.id, resp.req.period, resp.req.at))

\* C8 witness: a listing by week that counts a record exactly 7 days old and
\* leaves out an older one.
C8_Witness ==
    /\ resp.op = "list_ideas" /\ resp.req.period = <<"week">>
    /\ \E k \in 1..Len(db.vote) : db.vote[k].created_at = resp.req.at - 7
    /\ \E k \in 1..Len(db.vote) : db.vote[k].created_at < resp.req.at - 7
    /\ \E n \in 1..Len(resp.body) : resp.body[n].votes = 1

\* C8 witness for the month: a listing by month that counts a record exactly
\* 30 days old.
C8_WitnessMonth ==
    /\ resp.op = "list_ideas" /\ resp.req.period = <<"month">>
    /\ resp.req.at = 30
    /\ \E n \in 1..Len(resp.body) : resp.body[n].votes = 8

====
